---- MODULE Spec2Model ----
(***************************************************************************)
(* The Capital Investor (src/app.py): a Streamlit script that loads a CSV  *)
(* of listings, fits a RandomForestRegressor once, and on every script run *)
(* predicts a nightly price from four widgets, projects revenue and asset  *)
(* value and writes one advisory note.                                     *)
(*                                                                         *)
(* Units.  Distances are hundredths of a mile (the float slider's default  *)
(* step is 0.01), prices are mills (1/1000 dollar), revenue and asset      *)
(* value are half-mills (1/2000 dollar) so that price * 30 * 0.65 is an    *)
(* integer.  Displayed figures are cents (":.2f") or whole dollars         *)
(* (":,.0f").                                                              *)
(*                                                                         *)
(* Framework behaviour the script relies on: a script run executes the     *)
(* file top to bottom with fresh variables; a widget change or a rerun     *)
(* request starts a new run (interrupting the current one at an st.* call);*)
(* elements of the previous run stay on screen until the new run replaces  *)
(* them and are removed when the run ends; st.cache_data and               *)
(* st.cache_resource keep their entries for the life of the process.       *)
(***************************************************************************)
EXTENDS Integers, Sequences, FiniteSets

VARIABLES
    file,            \* content of 'clean_airbnb_dc.csv' on disk, None when absent
    data_cache,      \* st.cache_data entry of load_data(), or None
    resource_cache,  \* st.cache_resource entries of train_model: {[key, value]}
    pc,              \* position of the current script run
    df,              \* script variable df
    model,           \* script variable model
    widgets,         \* widget state of the session: beds, guests, dist, reviews
    inputs,          \* script variables beds, guests, dist, reviews
    input_data,      \* script variable input_data (one-row DataFrame)
    pred_price,      \* script variable pred_price
    revenue,         \* script variable revenue
    screen,          \* what the page shows: element -> content or None
    fresh,           \* elements written by the current run
    calls,           \* per-run count of inference / projection / advisory
    stopped_by,      \* how the current run ended early: "", "st.stop" or the exception
    nLoad,           \* times the CSV was read successfully (saturating)
    nFit,            \* times model.fit ran (saturating)
    served           \* inferences made since process start (saturating)

vars == <<file, data_cache, resource_cache, pc, df, model, widgets, inputs, input_data,
          pred_price, revenue, screen, fresh, calls, stopped_by, nLoad, nFit, served>>

\* An optional value is a set with at most one element.
None == {}
Some(v) == {v}
The(s) == CHOOSE x \in s : TRUE

\* Saturation point of the process-wide counters.
MaxCount == 2

Sat(n) == IF n < MaxCount THEN n + 1 ELSE n

Min(S) == CHOOSE x \in S : \A y \in S : x <= y
Max(S) == CHOOSE x \in S : \A y \in S : x >= y
Range(s) == {s[i] : i \in 1..Len(s)}

----------------------------------------------------------------------------
(* The dataset file *)

\* train_model: features = ['bedrooms', 'accommodates', 'dist_to_mall', 'number_of_reviews']
features == <<"bedrooms", "accommodates", "dist_to_mall", "number_of_reviews">>

\* train_model: y = df['price']
target == "price"

\* Columns tab1 reads besides price and dist_to_mall
\* (px.scatter_mapbox lat/lon/hover_name, groupby('neighbourhood_cleansed')).
tab1_columns == {"latitude", "longitude", "neighbourhood_cleansed", "price", "dist_to_mall"}

AllColumns == Range(features) \cup {target} \cup tab1_columns

Row(b, a, d, n, p) ==
    [c \in AllColumns |->
        CASE c = "bedrooms" -> b
          [] c = "accommodates" -> a
          [] c = "dist_to_mall" -> d
          [] c = "number_of_reviews" -> n
          [] c = "price" -> p
          [] c = "latitude" -> 389
          [] c = "longitude" -> -770
          [] OTHER -> 1]

\* A table with the given columns: every row restricted to them.
Table(cols, rows) ==
    [columns |-> cols,
     rows |-> [i \in 1..Len(rows) |-> [c \in cols |-> rows[i][c]]]]

\* Three listings priced 100, 200 and 300 dollars.
ListingRows == <<Row(1, 2, 50, 10, 100000), Row(2, 4, 200, 50, 200000),
                 Row(3, 6, 500, 100, 300000)>>

\* The same listings with a negative price column (the file is not validated).
NegativeRows == <<Row(1, 2, 50, 10, -50000), Row(2, 4, 200, 50, -50000),
                  Row(3, 6, 500, 100, -50000)>>

\* What the environment may put at 'clean_airbnb_dc.csv'.
Files ==
    {None,
     Some(Table(AllColumns, ListingRows)),
     Some(Table(AllColumns, NegativeRows)),
     Some(Table(AllColumns \ {"price"}, ListingRows)),
     Some(Table(AllColumns \ {"bedrooms"}, ListingRows)),
     Some(Table(AllColumns \ {"latitude"}, ListingRows))}

----------------------------------------------------------------------------
(* The widgets of tab2 *)

\* st.slider("Bedrooms", 1, 6, 2)
beds_slider == [min |-> 1, max |-> 6, value |-> 2]
\* st.slider("Guest Capacity", 1, 12, 4)
guests_slider == [min |-> 1, max |-> 12, value |-> 4]
\* st.slider("Distance to Mall (Miles)", 0.1, 10.0, 1.5)
dist_slider == [min |-> 10, max |-> 1000, value |-> 150]
\* st.number_input("Est. Review Count", value=50): no min_value, no max_value
reviews_input == [value |-> 50]

\* A slider only yields values between its min and its max.
SliderAccepts(s, v) == s.min <= v /\ v <= s.max
\* An integer number_input without bounds yields any integer.
NumberInputAccepts(n, v) == v \in Int

\* Values the user tries on each widget (inside and outside the ranges).
BedsTried == {0, 6, 7}
GuestsTried == {0, 12, 13}
DistTried == {9, 99, 100, 400, 401, 1001}
ReviewsTried == {-1, 0}

----------------------------------------------------------------------------
(* The page *)

Elements == {"error", "exception", "kpi", "charts", "sliders", "m1", "m2", "m3",
             "note", "footer"}

\* st.write texts of the AI advisor
FileNotFoundMessage == "File 'clean_airbnb_dc.csv' not found."
PRIME_LOCATION == "High-Traffic Tourist Zone"
VOLUME_STRATEGY == "Residential/Commuter Zone"
BALANCED == "Balanced Location"

BlankScreen == [e \in Elements |-> None]

\* Writing an element replaces what the page showed there.
Put(scr, e, v) == [scr EXCEPT ![e] = v]

\* When a run ends the elements it did not write are removed.
EndOfRun(scr, fr) == [e \in Elements |-> IF e \in fr THEN scr[e] ELSE None]

----------------------------------------------------------------------------
(* Script runs *)

NoCalls == [predict |-> 0, project |-> 0, advise |-> 0]

\* A run's variables before the script has assigned them.
FreshRun ==
    /\ pc' = "load"
    /\ df' = None
    /\ model' = None
    /\ inputs' = None
    /\ input_data' = <<>>
    /\ pred_price' = None
    /\ revenue' = None
    /\ fresh' = {}
    /\ calls' = NoCalls
    /\ stopped_by' = ""

Init ==
    /\ file \in Files
    /\ data_cache = None
    /\ resource_cache = {}
    /\ pc = "load"
    /\ df = None
    /\ model = None
    /\ widgets = [beds |-> beds_slider.value, guests |-> guests_slider.value,
                  dist |-> dist_slider.value, reviews |-> reviews_input.value]
    /\ inputs = None
    /\ input_data = <<>>
    /\ pred_price = None
    /\ revenue = None
    /\ screen = BlankScreen
    /\ fresh = {}
    /\ calls = NoCalls
    /\ stopped_by = ""
    /\ nLoad = 0
    /\ nFit = 0
    /\ served = 0

\* An exception no handler catches ends the run; the page shows it.
Uncaught(exc) ==
    /\ pc' = "ended"
    /\ stopped_by' = exc
    /\ fresh' = fresh \cup {"exception"}
    /\ screen' = EndOfRun(Put(screen, "exception", Some(exc)), fresh \cup {"exception"})

\* The handler without its st.stop(): the script goes on to train_model.
continues_after_file_not_found == "train"

\* Where the script goes after `except FileNotFoundError` has shown the error:
\* st.stop() ends the run.
after_file_not_found == "ended"

\* lines 27-36: df = load_data() under st.cache_data, with the FileNotFoundError guard
load_data ==
    /\ pc = "load"
    /\ IF data_cache # None
       THEN /\ df' = data_cache
            /\ pc' = "train"
            /\ UNCHANGED <<data_cache, nLoad, screen, fresh, stopped_by>>
       ELSE IF file = None
       THEN /\ pc' = after_file_not_found
            /\ stopped_by' = "st.stop"
            /\ fresh' = fresh \cup {"error"}
            /\ screen' = EndOfRun(Put(screen, "error", Some(FileNotFoundMessage)),
                                  fresh \cup {"error"})
            /\ UNCHANGED <<df, data_cache, nLoad>>
       ELSE /\ df' = file
            /\ data_cache' = file
            /\ nLoad' = Sat(nLoad)
            /\ pc' = "train"
            /\ UNCHANGED <<screen, fresh, stopped_by>>
    /\ UNCHANGED <<file, resource_cache, model, widgets, inputs, input_data, pred_price,
                   revenue, calls, nFit, served>>

\* X = df[features]: the rows projected to the feature columns, in that order
Select(frame, cols) ==
    [i \in 1..Len(frame.rows) |-> [j \in 1..Len(cols) |-> frame.rows[i][cols[j]]]]

\* y = df['price']
Column(frame, c) == [i \in 1..Len(frame.rows) |-> frame.rows[i][c]]

\* RandomForestRegressor(n_estimators=50, random_state=42).fit(X, y)
fit(cols, X, y) ==
    [n_estimators |-> 50, random_state |-> 42, feature_names_in_ |-> cols,
     X |-> X, y |-> y]

\* train_model without @st.cache_resource: no call is ever answered from the cache.
cache_misses(frame) == {}

\* The st.cache_resource entries that answer train_model(frame).
cache_hits(frame) == {e \in resource_cache : e.key = frame}

\* lines 39-48: model = train_model(df) under st.cache_resource
train_model ==
    /\ pc = "train"
    /\ LET frame == The(df) IN
       IF cache_hits(frame) # {}
       THEN /\ model' = Some(The(cache_hits(frame)).value)
            /\ pc' = "tab1"
            /\ UNCHANGED <<resource_cache, nFit, screen, fresh, stopped_by>>
       ELSE IF ~(Range(features) \cup {target} \subseteq frame.columns)
       THEN /\ Uncaught("KeyError")
            /\ UNCHANGED <<model, resource_cache, nFit>>
       ELSE LET fitted == fit(features, Select(frame, features), Column(frame, target)) IN
            /\ model' = Some(fitted)
            /\ resource_cache' = resource_cache \cup {[key |-> frame, value |-> fitted]}
            /\ nFit' = Sat(nFit)
            /\ pc' = "tab1"
            /\ UNCHANGED <<screen, fresh, stopped_by>>
    /\ UNCHANGED <<file, data_cache, df, widgets, inputs, input_data, pred_price, revenue,
                   calls, nLoad, served>>

\* lines 60-107: the KPIs and the two charts of tab1.  Of their content only the
\* listing count is kept; the charts fail when a column they read is absent.
tab1 ==
    /\ pc = "tab1"
    /\ LET frame == The(df)
           kpis == Put(screen, "kpi", Some(Len(frame.rows))) IN
       IF tab1_columns \subseteq frame.columns
       THEN /\ screen' = Put(kpis, "charts", Some(Len(frame.rows)))
            /\ fresh' = fresh \cup {"kpi", "charts"}
            /\ pc' = "tab2"
            /\ UNCHANGED stopped_by
       ELSE /\ pc' = "ended"
            /\ stopped_by' = "ValueError"
            /\ fresh' = fresh \cup {"kpi", "exception"}
            /\ screen' = EndOfRun(Put(kpis, "exception", Some("ValueError")),
                                  fresh \cup {"kpi", "exception"})
    /\ UNCHANGED <<file, data_cache, resource_cache, df, model, widgets, inputs,
                   input_data,
                   pred_price, revenue, calls, nLoad, nFit, served>>

----------------------------------------------------------------------------
(* tab2: the ROI calculator *)

\* The dict written with accommodates before bedrooms.
InputDataSwapped(beds, guests, dist, reviews) ==
    <<[column |-> "accommodates", value |-> guests],
      [column |-> "bedrooms", value |-> beds],
      [column |-> "dist_to_mall", value |-> dist],
      [column |-> "number_of_reviews", value |-> reviews]>>

\* lines 126-131: the one-row DataFrame, its columns in the order of the dict
InputData(beds, guests, dist, reviews) ==
    <<[column |-> "bedrooms", value |-> beds],
      [column |-> "accommodates", value |-> guests],
      [column |-> "dist_to_mall", value |-> dist],
      [column |-> "number_of_reviews", value |-> reviews]>>

ColumnsOf(frame) == [i \in 1..Len(frame) |-> frame[i].column]

\* Prices (mills) a prediction is drawn from.
PredGrid == {-50000, 100015, 150000}

\* model.predict(input_data)[0].  The regressor is scikit-learn's: it refuses a
\* frame whose column names differ from those seen by fit (no outcome), and a
\* forest's output is an average of training targets, so it lies between the
\* least and the greatest of them; which value it is is left open.
predict(m, frame) ==
    IF ColumnsOf(frame) # m.feature_names_in_
    THEN {}
    ELSE {p \in PredGrid : Min(Range(m.y)) <= p /\ p <= Max(Range(m.y))}

\* occupancy = 0.65, in percent
occupancy == 65

\* The revenue without the occupancy factor.
RevenueFullOccupancy(p) == p * 30 * 2

\* line 134: revenue = pred_price * 30 * occupancy, mills -> half-mills
\* (30 * 65 * 2 is a multiple of 100, so the division is exact).  The products
\* are exact here; the script's are floats, each rounded to the nearest double.
Revenue(p) == (p * 30 * occupancy * 2) \div 100

\* line 143: revenue * 12 * 15
AssetValue(r) == r * 12 * 15

\* Rounding x / d to the nearest integer as a format specifier does; an exact
\* half goes either way (it depends on the binary value of the float).
RoundOutcomes(x, d) ==
    LET q == x \div d
        r == x % d IN
    IF 2 * r < d THEN {q} ELSE IF 2 * r > d THEN {q + 1} ELSE {q, q + 1}

\* f"${pred_price:.2f}": mills -> cents
FormatPrice(p) == RoundOutcomes(p, 10)
\* f"${revenue:,.2f}": half-mills -> cents
FormatRevenue(r) == RoundOutcomes(r, 20)
\* f"${revenue * 12 * 15:,.0f}": half-mills -> dollars
FormatAsset(a) == RoundOutcomes(a, 2000)

\* The advisor with both comparisons inclusive.
AdviseInclusive(dist) ==
    IF dist <= 100 THEN {PRIME_LOCATION}
    ELSE IF dist >= 400 THEN {VOLUME_STRATEGY}
    ELSE {BALANCED}

\* lines 147-152: the texts the advisor writes for a distance (hundredths of a mile)
Advise(dist) ==
    IF dist < 100 THEN {PRIME_LOCATION}
    ELSE IF dist > 400 THEN {VOLUME_STRATEGY}
    ELSE {BALANCED}

\* lines 118-134: the four widgets, input_data, the prediction and the revenue
property_specs ==
    /\ pc = "tab2"
    /\ LET frame == InputData(widgets.beds, widgets.guests, widgets.dist, widgets.reviews)
           outcomes == predict(The(model), frame)
           shown == Put(screen, "sliders", Some(1)) IN
       /\ inputs' = Some(widgets)
       /\ input_data' = frame
       /\ IF outcomes = {}
          THEN /\ pc' = "ended"
               /\ stopped_by' = "ValueError"
               /\ fresh' = fresh \cup {"sliders", "exception"}
               /\ screen' = EndOfRun(Put(shown, "exception", Some("ValueError")),
                                     fresh \cup {"sliders", "exception"})
               /\ UNCHANGED <<pred_price, revenue, calls, served>>
          ELSE /\ \E p \in outcomes :
                    /\ pred_price' = Some(p)
                    /\ revenue' = Some(Revenue(p))
               /\ calls' = [calls EXCEPT !.predict = @ + 1, !.project = @ + 1]
               /\ served' = Sat(served)
               /\ screen' = shown
               /\ fresh' = fresh \cup {"sliders"}
               /\ pc' = "metrics"
               /\ UNCHANGED stopped_by
    /\ UNCHANGED <<file, data_cache, resource_cache, df, model, widgets, nLoad, nFit>>

\* lines 136-143: the three metrics
metrics ==
    /\ pc = "metrics"
    /\ \E a \in FormatPrice(The(pred_price)), b \in FormatRevenue(The(revenue)),
          c \in FormatAsset(AssetValue(The(revenue))) :
          screen' = Put(Put(Put(screen, "m1", Some(a)), "m2", Some(b)), "m3", Some(c))
    /\ fresh' = fresh \cup {"m1", "m2", "m3"}
    /\ pc' = "advisor"
    /\ UNCHANGED <<file, data_cache, resource_cache, df, model, widgets, inputs,
                   input_data, pred_price, revenue, calls, stopped_by, nLoad, nFit,
                   served>>

\* An advisor that keeps the note already on the page instead of writing a new one.
advisor_keeps_note ==
    /\ pc = "advisor"
    /\ screen' = IF screen["note"] # None THEN screen
                 ELSE Put(screen, "note", Advise(The(inputs).dist))
    /\ fresh' = fresh \cup {"note"}
    /\ calls' = [calls EXCEPT !.advise = @ + 1]
    /\ pc' = "footer"
    /\ UNCHANGED <<file, data_cache, resource_cache, df, model, widgets, inputs,
                   input_data, pred_price, revenue, stopped_by, nLoad, nFit, served>>

\* lines 146-152: the AI advisor
advisor ==
    /\ pc = "advisor"
    /\ screen' = Put(screen, "note", Advise(The(inputs).dist))
    /\ fresh' = fresh \cup {"note"}
    /\ calls' = [calls EXCEPT !.advise = @ + 1]
    /\ pc' = "footer"
    /\ UNCHANGED <<file, data_cache, resource_cache, df, model, widgets, inputs,
                   input_data, pred_price, revenue, stopped_by, nLoad, nFit, served>>

\* lines 155-156: the footer; the run is over
footer ==
    /\ pc = "footer"
    /\ fresh' = fresh \cup {"footer"}
    /\ screen' = EndOfRun(Put(screen, "footer", Some(1)), fresh \cup {"footer"})
    /\ pc' = "ended"
    /\ UNCHANGED <<file, data_cache, resource_cache, df, model, widgets, inputs,
                   input_data, pred_price, revenue, calls, stopped_by, nLoad, nFit,
                   served>>

----------------------------------------------------------------------------
(* The user and the environment *)

\* A widget can be moved while it is on the page; that starts a new run.
Rendered == screen["sliders"] # None

SetBeds ==
    /\ Rendered
    /\ \E v \in BedsTried :
          /\ SliderAccepts(beds_slider, v)
          /\ v # widgets.beds
          /\ widgets' = [widgets EXCEPT !.beds = v]
    /\ FreshRun
    /\ UNCHANGED <<file, data_cache, resource_cache, screen, nLoad, nFit, served>>

SetGuests ==
    /\ Rendered
    /\ \E v \in GuestsTried :
          /\ SliderAccepts(guests_slider, v)
          /\ v # widgets.guests
          /\ widgets' = [widgets EXCEPT !.guests = v]
    /\ FreshRun
    /\ UNCHANGED <<file, data_cache, resource_cache, screen, nLoad, nFit, served>>

SetDist ==
    /\ Rendered
    /\ \E v \in DistTried :
          /\ SliderAccepts(dist_slider, v)
          /\ v # widgets.dist
          /\ widgets' = [widgets EXCEPT !.dist = v]
    /\ FreshRun
    /\ UNCHANGED <<file, data_cache, resource_cache, screen, nLoad, nFit, served>>

SetReviews ==
    /\ Rendered
    /\ \E v \in ReviewsTried :
          /\ NumberInputAccepts(reviews_input, v)
          /\ v # widgets.reviews
          /\ widgets' = [widgets EXCEPT !.reviews = v]
    /\ FreshRun
    /\ UNCHANGED <<file, data_cache, resource_cache, screen, nLoad, nFit, served>>

\* The user asks for a rerun of a finished run.
Rerun ==
    /\ pc = "ended"
    /\ FreshRun
    /\ UNCHANGED <<file, data_cache, resource_cache, widgets, screen, nLoad, nFit, served>>

\* The file is created, removed or replaced; the script can only notice when
\* it is about to read it.
FileChange ==
    /\ pc = "load"
    /\ \E f \in Files \ {file} : file' = f
    /\ UNCHANGED <<data_cache, resource_cache, pc, df, model, widgets, inputs, input_data,
                   pred_price, revenue, screen, fresh, calls, stopped_by, nLoad, nFit,
                   served>>

Next ==
    \/ load_data
    \/ train_model
    \/ tab1
    \/ property_specs
    \/ metrics
    \/ advisor
    \/ footer
    \/ SetBeds
    \/ SetGuests
    \/ SetDist
    \/ SetReviews
    \/ Rerun
    \/ FileChange

Spec == Init /\ [][Next]_vars

----------------------------------------------------------------------------
(* Properties *)

\* The run went through to the footer.
Completed == pc = "ended" /\ stopped_by = ""

\* C1: for every distance the slider can give, the advisor writes exactly one
\* note: the High-Traffic text iff dist < 1.0, the Residential/Commuter text
\* iff dist > 4.0, the Balanced text otherwise (1.0 and 4.0 included).
C1_AdvisoryRule ==
    "note" \in fresh =>
        LET d == widgets.dist
            note == screen["note"] IN
        /\ Cardinality(note) = 1
        /\ note \subseteq {PRIME_LOCATION, VOLUME_STRATEGY, BALANCED}
        /\ (PRIME_LOCATION \in note) <=> (d < 100)
        /\ (VOLUME_STRATEGY \in note) <=> (d > 400)
        /\ (BALANCED \in note) <=> (100 <= d /\ d <= 400)

\* A note written for the boundary distance 1.0.
C1_Witness ==
    /\ "note" \in fresh
    /\ widgets.dist = 100
    /\ screen["note"] = {BALANCED}

\* C2 as stated: the displayed asset value (whole dollars) is exactly 180
\* times the displayed monthly revenue (cents), for every price >= 0.
C2_DisplayedAssetIs180TimesDisplayedRevenue ==
    ({"m2", "m3"} \subseteq fresh /\ The(pred_price) >= 0) =>
        The(screen["m3"]) * 100 = 180 * The(screen["m2"])

\* C2 amended: for every price p >= 0, revenue = p * 30 * 0.65 and the asset
\* value is computed from the unrounded revenue as revenue * 12 * 15 (180 *
\* revenue in exact arithmetic); doubling p doubles the revenue; the page shows the revenue
\* rounded to cents and the asset value rounded to whole dollars, each within
\* half a unit of the computed figure (2925.00 and 526,500 for p = 150).
C2_Projection ==
    (revenue # None /\ The(pred_price) >= 0) =>
        LET p == The(pred_price)
            r == The(revenue) IN
        /\ r * 100 = p * 30 * 65 * 2
        /\ AssetValue(r) = 180 * r
        /\ Revenue(2 * p) = 2 * r
        /\ {"m2", "m3"} \subseteq fresh =>
              /\ 2 * (The(screen["m2"]) * 20 - r) \in -20..20
              /\ 2 * (The(screen["m3"]) * 2000 - 180 * r) \in -2000..2000
              /\ p = 150000 =>
                    /\ The(screen["m2"]) = 292500
                    /\ The(screen["m3"]) = 526500

\* The metrics of a 150-dollar prediction are on the page.
C2_Witness ==
    /\ {"m2", "m3"} \subseteq fresh
    /\ pred_price = Some(150000)
    /\ screen["m2"] = Some(292500)
    /\ screen["m3"] = Some(526500)

\* C3: a run that finds the file missing shows the diagnostic and halts; it
\* holds no dataset and no model, nothing is cached, and the page shows no
\* prediction, projection, advisory or chart.
C3_MissingFileHalts ==
    stopped_by = "st.stop" =>
        /\ pc = "ended"
        /\ df = None /\ model = None
        /\ data_cache = None /\ resource_cache = {}
        /\ nLoad = 0 /\ nFit = 0 /\ served = 0
        /\ inputs = None /\ input_data = <<>>
        /\ pred_price = None /\ revenue = None
        /\ calls = NoCalls
        /\ screen = Put(BlankScreen, "error", Some(FileNotFoundMessage))

\* A run halted on the missing file, the diagnostic on the page.
C3_Witness ==
    /\ stopped_by = "st.stop"
    /\ file = None
    /\ screen["error"] = Some(FileNotFoundMessage)

\* C4: in one process the CSV is read at most once and the model fit at most
\* once, both before the first inference; every run works on the cached
\* dataset and model; and once cached, neither is ever changed by any step
\* (inference, projection, advisory, charts, reruns, changes of the file).
C4_FitOnce ==
    /\ [](/\ nLoad <= 1 /\ nFit <= 1
          /\ Cardinality(resource_cache) <= 1
          /\ (served >= 1 \/ pred_price # None) => (nLoad = 1 /\ nFit = 1)
          /\ df # None => df = data_cache
          /\ model # None => model = {e.value : e \in resource_cache})
    /\ [][/\ data_cache # None => data_cache' = data_cache
          /\ resource_cache # {} => resource_cache' = resource_cache]_vars

\* A second inference on the one fitted model, after the file was replaced.
C4_Witness ==
    /\ served >= 2
    /\ nFit = 1 /\ nLoad = 1
    /\ pred_price # None
    /\ file # data_cache

\* C5: the feature vector passed to predict is within the input ranges:
\* bedrooms in 1..6, accommodates in 1..12, dist_to_mall in 0.1..10.0 and
\* number_of_reviews >= 0.
C5_FeatureVectorInRange ==
    input_data # <<>> =>
        /\ input_data[1].value \in 1..6
        /\ input_data[2].value \in 1..12
        /\ input_data[3].value \in 10..1000
        /\ input_data[4].value >= 0

\* C6: a run on a dataset lacking a required column ends with a diagnostic
\* shown by the script as for a missing file (st.error and st.stop), not with
\* an uncaught generic exception, and fits and predicts nothing.
C6_MissingColumnDiagnosed ==
    (df # None /\ ~(Range(features) \cup {target} \subseteq The(df).columns)
              /\ pc \notin {"load", "train"}) =>
        /\ pc = "ended"
        /\ stopped_by = "st.stop"
        /\ screen["error"] # None
        /\ screen["exception"] = None
        /\ model = None /\ pred_price = None

\* C7: a negative prediction is rejected: it is never projected and never
\* shown as a dollar figure.
C7_NegativePredictionRejected ==
    (pred_price # None /\ The(pred_price) < 0) =>
        /\ revenue = None
        /\ {"m1", "m2", "m3"} \cap fresh = {}

\* C9: the frame passed to predict has exactly the columns bedrooms,
\* accommodates, dist_to_mall, number_of_reviews, in the order of the columns
\* the model was fit on, filled from the bedrooms, guest-capacity, distance
\* and review-count widgets.
C9_FeatureOrder ==
    input_data # <<>> =>
        /\ ColumnsOf(input_data) =
              <<"bedrooms", "accommodates", "dist_to_mall", "number_of_reviews">>
        /\ ColumnsOf(input_data) = The(model).feature_names_in_
        /\ \A i \in 1..4 : The(model).feature_names_in_[i] = features[i]
        /\ \A i \in 1..Len(The(model).X) : Len(The(model).X[i]) = 4
        /\ input_data[1].value = widgets.beds
        /\ input_data[2].value = widgets.guests
        /\ input_data[3].value = widgets.dist
        /\ input_data[4].value = widgets.reviews

\* A frame built after the user moved the bedrooms and guest sliders apart.
C9_Witness ==
    /\ pc = "metrics"
    /\ widgets.beds = 6 /\ widgets.guests = 12 /\ widgets.dist = 99
    /\ input_data[1].value = 6
    /\ served >= 2

\* C10: when a run has completed, everything on the page was written by that
\* run from the current widget values, with one inference, one projection and
\* one advisory evaluation; a run that ended early shows nothing of an earlier
\* run either, and a new run starts with no value of the previous one.
C10_DisplayIsCurrent ==
    /\ [](pc = "ended" => \A e \in Elements : screen[e] # None => e \in fresh)
    /\ [](Completed =>
            /\ inputs = Some(widgets)
            /\ input_data = <<[column |-> "bedrooms", value |-> widgets.beds],
                              [column |-> "accommodates", value |-> widgets.guests],
                              [column |-> "dist_to_mall", value |-> widgets.dist],
                              [column |-> "number_of_reviews", value |-> widgets.reviews]>>
            /\ calls = [predict |-> 1, project |-> 1, advise |-> 1]
            /\ Elements \ {"error", "exception"} \subseteq fresh
            /\ pred_price \subseteq predict(The(model), input_data)
            /\ revenue = Some(Revenue(The(pred_price)))
            /\ screen["m1"] \subseteq FormatPrice(The(pred_price))
            /\ screen["m2"] \subseteq FormatRevenue(The(revenue))
            /\ screen["m3"] \subseteq FormatAsset(The(revenue) * 180)
            /\ screen["note"] =
                  (IF widgets.dist < 100 THEN {PRIME_LOCATION}
                   ELSE IF widgets.dist > 400 THEN {VOLUME_STRATEGY}
                   ELSE {BALANCED}))
    /\ [][(pc # "load" /\ pc' = "load") =>
            /\ inputs' = None /\ input_data' = <<>>
            /\ pred_price' = None /\ revenue' = None
            /\ calls' = NoCalls /\ fresh' = {}]_vars

\* A completed run in another advisory zone than the run before it.
C10_Witness ==
    /\ Completed
    /\ served >= 2
    /\ widgets.dist = 401
    /\ screen["note"] = {VOLUME_STRATEGY}
    /\ pred_price = Some(100015)

====
